---- MODULE Spec2Model ----
(***************************************************************************)
(* Model of test-jama-oauth.py: a two-step OAuth2 client-credentials       *)
(* diagnostic.  Step 1 POSTs to the token endpoint, Step 2 GETs the        *)
(* projects endpoint with the bearer token, and the script prints a        *)
(* classification of what came back.                                       *)
(*                                                                         *)
(* Text is modelled as a sequence of pieces.  Text that comes from outside *)
(* (response bodies, token values, JSON keys) is a sequence of one-        *)
(* character strings, so that substring search, JSON parsing and str()     *)
(* work on characters.  A literal of the script is kept as one piece       *)
(* holding the whole literal (the emoji glyphs of the script's literals    *)
(* are left out).  One printed line is one such sequence; <<>> is the      *)
(* empty line printed by print().                                          *)
(***************************************************************************)
EXTENDS Integers, Sequences, FiniteSets, TLC

(***************************************************************************)
(* Bounds of the input space.                                              *)
(***************************************************************************)
\* longest access_token string the token endpoint hands out
MaxTokenLen == 2
\* largest number of records in the projects endpoint's "data" array
MaxProjects == 3

(***************************************************************************)
(* Python values.  A parsed JSON value is a tagged record; None is the     *)
(* value tagged "null".  A Python name that is not bound yet is <<>>, a    *)
(* bound one is <<value>>.                                                 *)
(***************************************************************************)
JNull == [t |-> "null"]
JBool(b) == [t |-> "bool", v |-> b]
JInt(n) == [t |-> "int", v |-> n]
JStr(cs) == [t |-> "str", v |-> cs]
JArr(xs) == [t |-> "arr", v |-> xs]
JObj(ms) == [t |-> "obj", v |-> ms]

Unbound == <<>>
Bound(x) == <<x>>
IsBound(o) == Len(o) = 1
Val(o) == o[1]

(***************************************************************************)
(* Characters.                                                             *)
(***************************************************************************)
Digits == <<"0", "1", "2", "3", "4", "5", "6", "7", "8", "9">>
IsDigit(c) == \E d \in 1..10 : Digits[d] = c
DigitVal(c) == (CHOOSE d \in 1..10 : Digits[d] = c) - 1

QUOTE == "\""
\* the whitespace json.loads skips between tokens
JsonWs == {" ", "\t", "\n", "\r"}

\* str(n) for an int
RECURSIVE NatToChars(_)
NatToChars(n) ==
    IF n < 10 THEN <<Digits[n + 1]>>
    ELSE NatToChars(n \div 10) \o <<Digits[(n % 10) + 1]>>

IntToChars(n) == IF n < 0 THEN <<"-">> \o NatToChars(0 - n) ELSE NatToChars(n)

\* Python's  pat in text  for a non-empty pat
Contains(text, pat) ==
    \E i \in 1..(Len(text) - Len(pat) + 1) : SubSeq(text, i, i + Len(pat) - 1) = pat

\* text[i:i+len(word)] == word
StartsAt(text, i, word) ==
    /\ i + Len(word) - 1 <= Len(text)
    /\ SubSeq(text, i, i + Len(word) - 1) = word

(***************************************************************************)
(* response.json(): the JSON grammar restricted to objects, arrays,        *)
(* strings without escapes, integers and null/true/false.  A parse step    *)
(* returns [ok, val, next]: whether a value was read, the value, and the   *)
(* index after it.  The bodies the model feeds in stay inside this subset  *)
(* (no backslash, no fraction, no exponent).                               *)
(***************************************************************************)
ParseFail(i) == [ok |-> FALSE, val |-> JNull, next |-> i]
ParseOk(v, i) == [ok |-> TRUE, val |-> v, next |-> i]

RECURSIVE SkipWs(_, _)
SkipWs(s, i) == IF i <= Len(s) /\ s[i] \in JsonWs THEN SkipWs(s, i + 1) ELSE i

\* index after the run of digits that starts at i
RECURSIVE DigitsEnd(_, _)
DigitsEnd(s, i) == IF i <= Len(s) /\ IsDigit(s[i]) THEN DigitsEnd(s, i + 1) ELSE i

\* value of the digits s[i..j-1], continuing from acc
RECURSIVE DigitsVal(_, _, _, _)
DigitsVal(s, i, j, acc) ==
    IF i >= j THEN acc ELSE DigitsVal(s, i + 1, j, acc * 10 + DigitVal(s[i]))

\* an integer: -? (0 | [1-9][0-9]*)
ParseNumber(s, i) ==
    LET neg == s[i] = "-"
        b == IF neg THEN i + 1 ELSE i
        e == DigitsEnd(s, b)
        n == DigitsVal(s, b, e, 0)
    IN  IF e = b THEN ParseFail(i)
        ELSE IF s[b] = "0" /\ e > b + 1 THEN ParseOk(JInt(0), b + 1)
        ELSE ParseOk(JInt(IF neg THEN 0 - n ELSE n), e)

\* index of the first quote at or after i, or Len(s)+1
RECURSIVE QuoteAt(_, _)
QuoteAt(s, i) == IF i <= Len(s) /\ s[i] # QUOTE THEN QuoteAt(s, i + 1) ELSE i

\* a string: s[i] is the opening quote
ParseString(s, i) ==
    LET j == QuoteAt(s, i + 1)
    IN  IF j > Len(s) THEN ParseFail(i)
        ELSE ParseOk(JStr(SubSeq(s, i + 1, j - 1)), j + 1)

RECURSIVE ParseValue(_, _)
RECURSIVE ParseElements(_, _, _)
RECURSIVE ParseMembers(_, _, _)

\* the elements of an array after "[" or ",": i is where the next element starts
ParseElements(s, i, acc) ==
    LET r == ParseValue(s, SkipWs(s, i))
        j == SkipWs(s, r.next)
    IN  IF ~r.ok \/ j > Len(s) THEN ParseFail(i)
        ELSE IF s[j] = "]" THEN ParseOk(JArr(Append(acc, r.val)), j + 1)
        ELSE IF s[j] = "," THEN ParseElements(s, j + 1, Append(acc, r.val))
        ELSE ParseFail(j)

\* the members of an object after "{" or ",": i is where the next key starts
ParseMembers(s, i, acc) ==
    LET k == SkipWs(s, i)
        key == IF k <= Len(s) /\ s[k] = QUOTE THEN ParseString(s, k) ELSE ParseFail(k)
        c == SkipWs(s, key.next)
        r == IF key.ok /\ c <= Len(s) /\ s[c] = ":"
             THEN ParseValue(s, SkipWs(s, c + 1)) ELSE ParseFail(c)
        j == SkipWs(s, r.next)
        m == [k |-> key.val.v, val |-> r.val]
    IN  IF ~r.ok \/ j > Len(s) THEN ParseFail(i)
        ELSE IF s[j] = "}" THEN ParseOk(JObj(Append(acc, m)), j + 1)
        ELSE IF s[j] = "," THEN ParseMembers(s, j + 1, Append(acc, m))
        ELSE ParseFail(j)

ParseValue(s, i) ==
    IF i > Len(s) THEN ParseFail(i)
    ELSE IF s[i] = "{" THEN
        LET j == SkipWs(s, i + 1)
        IN  IF j <= Len(s) /\ s[j] = "}" THEN ParseOk(JObj(<<>>), j + 1)
            ELSE ParseMembers(s, i + 1, <<>>)
    ELSE IF s[i] = "[" THEN
        LET j == SkipWs(s, i + 1)
        IN  IF j <= Len(s) /\ s[j] = "]" THEN ParseOk(JArr(<<>>), j + 1)
            ELSE ParseElements(s, i + 1, <<>>)
    ELSE IF s[i] = QUOTE THEN ParseString(s, i)
    ELSE IF s[i] = "-" \/ IsDigit(s[i]) THEN ParseNumber(s, i)
    ELSE IF StartsAt(s, i, <<"n", "u", "l", "l">>) THEN ParseOk(JNull, i + 4)
    ELSE IF StartsAt(s, i, <<"t", "r", "u", "e">>) THEN ParseOk(JBool(TRUE), i + 4)
    ELSE IF StartsAt(s, i, <<"f", "a", "l", "s", "e">>) THEN ParseOk(JBool(FALSE), i + 5)
    ELSE ParseFail(i)

\* response.json(): [ok, val]; ok is FALSE where json() raises
ParseJson(s) ==
    LET r == ParseValue(s, SkipWs(s, 1))
    IN  IF r.ok /\ SkipWs(s, r.next) = Len(s) + 1
        THEN [ok |-> TRUE, val |-> r.val]
        ELSE [ok |-> FALSE, val |-> JNull]

(***************************************************************************)
(* The Python operations the script applies to parsed values.              *)
(***************************************************************************)
HasKey(ms, key) == \E i \in 1..Len(ms) : ms[i].k = key

\* mutant of DictGet: a repeated key keeps its first value
DictGet_FirstWins(ms, key, dflt) ==
    IF HasKey(ms, key)
    THEN ms[CHOOSE i \in 1..Len(ms) :
                /\ ms[i].k = key
                /\ \A j \in 1..(i - 1) : ms[j].k # key].val
    ELSE dflt

\* dict.get(key, dflt) on the members of a parsed object: a repeated key keeps
\* its last value, as json.loads builds the dict
DictGet(ms, key, dflt) ==
    IF HasKey(ms, key)
    THEN ms[CHOOSE i \in 1..Len(ms) :
                /\ ms[i].k = key
                /\ \A j \in (i + 1)..Len(ms) : ms[j].k # key].val
    ELSE dflt

\* str(v), as an f-string formats v; for the scalar values the model feeds in
PyStr(v) ==
    CASE v.t = "str" -> v.v
      [] v.t = "null" -> <<"N", "o", "n", "e">>
      [] v.t = "int" -> IntToChars(v.v)
      [] v.t = "bool" -> IF v.v THEN <<"T", "r", "u", "e">> ELSE <<"F", "a", "l", "s", "e">>

\* type(v).__name__
PyTypeName(v) ==
    CASE v.t = "str" -> "str"
      [] v.t = "null" -> "NoneType"
      [] v.t = "int" -> "int"
      [] v.t = "bool" -> "bool"
      [] v.t = "arr" -> "list"
      [] v.t = "obj" -> "dict"

\* whether len(v) is defined
HasLen(v) == v.t \in {"arr", "str", "obj"}

\* mutant of PyLen: one record short
PyLen_OneShort(v) == IF Len(v.v) = 0 THEN 0 ELSE Len(v.v) - 1

\* len(v) where it is defined
PyLen(v) ==
    IF v.t = "obj" THEN Cardinality({v.v[i].k : i \in 1..Len(v.v)}) ELSE Len(v.v)

\* the exceptions raised inside the two try blocks; str(e) is msg
JSONDecodeError == [type |-> "JSONDecodeError", msg |-> <<"Expecting value">>]
AttributeError(v) ==
    [type |-> "AttributeError",
     msg |-> <<"'", PyTypeName(v), "' object has no attribute 'get'">>]
TypeError(v) ==
    [type |-> "TypeError",
     msg |-> <<"object of type '", PyTypeName(v), "' has no len()">>]

(***************************************************************************)
(* CONFIG: the module-level values of the script.                          *)
(***************************************************************************)
jama_base_url == "https://jama02.rockwellcollins.com/contour"
client_id == "YOUR_CLIENT_ID_HERE"
client_secret == "YOUR_CLIENT_SECRET_HERE"
token_url == <<jama_base_url, "/rest/oauth/token">>
projects_url == <<jama_base_url, "/rest/v1/projects">>
payload == [grant_type |-> "client_credentials"]

KeyAccessToken == <<"a", "c", "c", "e", "s", "s", "_", "t", "o", "k", "e", "n">>
KeyTokenType == <<"t", "o", "k", "e", "n", "_", "t", "y", "p", "e">>
KeyExpiresIn == <<"e", "x", "p", "i", "r", "e", "s", "_", "i", "n">>
KeyData == <<"d", "a", "t", "a">>
\* the text searched for in a failed projects response
Signature == <<"I", "n", "d", "e", "x", "O", "u", "t", "O", "f", "B", "o", "u", "n", "d", "s">>

(***************************************************************************)
(* What the two endpoints may answer.  A body is written out the way the   *)
(* server serializes it.                                                   *)
(***************************************************************************)
\* "key":value
Member(key, value) == <<QUOTE>> \o key \o <<QUOTE, ":">> \o value
\* "text"
Quoted(text) == <<QUOTE>> \o text \o <<QUOTE>>

RECURSIVE Joined(_)
Joined(ms) ==
    IF ms = <<>> THEN <<>>
    ELSE IF Len(ms) = 1 THEN ms[1]
    ELSE ms[1] \o <<",">> \o Joined(Tail(ms))

\* {m1,m2,...}
Object(ms) == <<"{">> \o Joined(ms) \o <<"}">>
\* [e1,e2,...]
Array(es) == <<"[">> \o Joined(es) \o <<"]">>

TokenAlphabet == {"a", "Z"}
\* the access_token strings the token endpoint hands out
Tokens == UNION {[1..n -> TokenAlphabet] : n \in 0..MaxTokenLen}

TypeMember == Member(KeyTokenType, Quoted(<<"b", "e", "a", "r", "e", "r">>))
ExpiryMember == Member(KeyExpiresIn, <<"3", "6", "0", "0">>)
ErrorBody ==
    Object(<<Member(<<"e", "r", "r", "o", "r">>,
                    Quoted(<<"i", "n", "v", "a", "l", "i", "d", "_",
                             "c", "l", "i", "e", "n", "t">>))>>)
HtmlBody == <<"<", "h", "t", "m", "l", ">">>

\* bodies of the token endpoint
TokenBodies ==
    \* a JSON object carrying an access_token string, alone or with the other fields
    {Object(<<Member(KeyAccessToken, Quoted(tok))>>) : tok \in Tokens}
    \cup {Object(<<Member(KeyAccessToken, Quoted(tok)), TypeMember, ExpiryMember>>) :
            tok \in Tokens}
    \* a JSON object without access_token
    \cup {Object(<<>>), Object(<<TypeMember>>), Object(<<ExpiryMember>>),
          Object(<<TypeMember, ExpiryMember>>), ErrorBody}
    \* access_token that is no string, and access_token given twice
    \cup {Object(<<Member(KeyAccessToken, <<"n", "u", "l", "l">>), TypeMember>>),
          Object(<<Member(KeyAccessToken, <<"1", "2">>)>>),
          Object(<<Member(KeyAccessToken, Quoted(<<"a">>)),
                   Member(KeyAccessToken, Quoted(<<"Z">>))>>)}
    \* JSON that is no object, and text that is no JSON
    \cup {Array(<<>>), Quoted(<<"a">>), <<"n", "u", "l", "l">>, <<>>, HtmlBody}

TokenStatuses == {200, 201, 400, 401, 500}

IdRecord == Object(<<Member(<<"i", "d">>, <<"1">>)>>)
\* {"data":[{"id":1}, ... n times]}
DataBody(n) == Object(<<Member(KeyData, Array([i \in 1..n |-> IdRecord]))>>)

\* the bodies that hold the signature: alone, inside an error text, at the end
\* of one, and inside a JSON object
SignatureAlone == Signature
SignatureInside == <<"j", "a", "v", "a", ".">> \o Signature \o <<":", " ", "3">>
SignatureLast == <<"x", "I">> \o Signature
SignatureInJson ==
    Object(<<Member(<<"m">>, Quoted(Signature)), Member(KeyData, Array(<<IdRecord>>))>>)
SignatureBodies == {SignatureAlone, SignatureInside, SignatureLast, SignatureInJson}

\* bodies of the projects endpoint
ProjectsBodies ==
    {DataBody(n) : n \in 0..MaxProjects}
    \* data absent, data without a length, data with a length that is no array
    \cup {Object(<<>>),
          Object(<<Member(KeyData, <<"n", "u", "l", "l">>)>>),
          Object(<<Member(KeyData, <<"7">>)>>),
          Object(<<Member(KeyData, Quoted(<<"a", "b">>))>>),
          Object(<<Member(KeyData, Object(<<Member(<<"x">>, <<"1">>),
                                            Member(<<"y">>, <<"2">>)>>))>>),
          Object(<<Member(KeyData, Array(<<<<"1">>>>)), Member(KeyData, Array(<<>>))>>)}
    \* JSON that is no object, and text that is no JSON
    \cup {Array(<<IdRecord>>), <<>>, HtmlBody}
    \* error texts with and without the signature
    \cup SignatureBodies
    \cup {
          <<"N", "u", "l", "l", "P", "o", "i", "n", "t", "e", "r">>,
          <<"i", "n", "d", "e", "x", "o", "u", "t", "o", "f", "b", "o", "u", "n", "d", "s">>,
          SubSeq(Signature, 1, Len(Signature) - 1),
          <<"I", "n", "d", "e", "x", "O", "u", "t", "O", "f", "B", "o", "u", "n", "d", "S">>,
          <<"I", "n", "d", "e", "x", "O", "u", "t", "O", "f", " ", "B", "o", "u", "n", "d", "s">>}

ProjectsStatuses == {200, 201, 403, 500, 503}

\* str(e) of the transport exceptions requests raises
TransportErrors ==
    {[type |-> "ConnectionError", msg |-> <<"Connection refused">>],
     [type |-> "SSLError", msg |-> <<"certificate verify failed">>]}

Response(status, body) == [status_code |-> status, text |-> body]

(***************************************************************************)
(* State: the script's position, its standard output, its exit code once   *)
(* it has exited, the requests it has issued, and its global names.        *)
(***************************************************************************)
VARIABLES pc, out, exit_code, sent, token_response, token_info, access_token,
          headers, projects_response, projects_data, e

vars == <<pc, out, exit_code, sent, token_response, token_info, access_token,
          headers, projects_response, projects_data, e>>

Init ==
    /\ pc = "start"
    /\ out = <<>>
    /\ exit_code = Unbound
    /\ sent = <<>>
    /\ token_response = Unbound
    /\ token_info = Unbound
    /\ access_token = Unbound
    /\ headers = Unbound
    /\ projects_response = Unbound
    /\ projects_data = Unbound
    /\ e = Unbound

\* sys.exit(code), and the interpreter leaving after the last statement
Exit(code) == pc' = "exited" /\ exit_code' = Bound(code)

\* lines 15-32: the banner, then the token request is issued
Start ==
    /\ pc = "start"
    /\ out' = out \o <<
            <<"=== Testing Jama OAuth Scope Issue ===">>,
            <<"Token URL: ">> \o token_url,
            <<"Projects URL: ">> \o projects_url,
            <<>>,
            <<"Step 1: Requesting OAuth token...">> >>
    /\ sent' = Append(sent, [method |-> "POST", url |-> token_url, data |-> payload,
                             auth |-> <<client_id, client_secret>>, verify |-> FALSE])
    /\ pc' = "post"
    /\ UNCHANGED <<exit_code, token_response, token_info, access_token, headers,
                   projects_response, projects_data, e>>

\* line 27: requests.post returns a response
PostReturns ==
    /\ pc = "post"
    /\ \E status \in TokenStatuses, body \in TokenBodies :
            token_response' = Bound(Response(status, body))
    /\ pc' = "token_check"
    /\ UNCHANGED <<out, exit_code, sent, token_info, access_token, headers,
                   projects_response, projects_data, e>>

\* line 27: requests.post raises
PostRaises ==
    /\ pc = "post"
    /\ \E x \in TransportErrors : e' = Bound(x)
    /\ pc' = "token_except"
    /\ UNCHANGED <<out, exit_code, sent, token_response, token_info, access_token,
                   headers, projects_response, projects_data>>

\* mutant of TokenFailed: only the error statuses count as a failure
TokenFailed_ErrorStatusOnly(resp) == resp.status_code >= 400

\* line 34
TokenFailed(resp) == resp.status_code # 200

\* mutant of TokenRejected: the raw body is not printed
TokenRejected_NoBody ==
    /\ pc = "token_check"
    /\ Val(token_response).status_code # 200
    /\ out' = out \o <<
            <<"Failed to get token">>,
            <<"Status Code: ">> \o IntToChars(Val(token_response).status_code) >>
    /\ Exit(1)
    /\ UNCHANGED <<sent, token_response, token_info, access_token, headers,
                   projects_response, projects_data, e>>

\* lines 34-38: sys.exit raises SystemExit, which  except Exception  lets through
TokenRejected ==
    /\ pc = "token_check"
    /\ TokenFailed(Val(token_response))
    /\ out' = out \o <<
            <<"Failed to get token">>,
            <<"Status Code: ">> \o IntToChars(Val(token_response).status_code),
            <<"Response: ">> \o Val(token_response).text >>
    /\ Exit(1)
    /\ UNCHANGED <<sent, token_response, token_info, access_token, headers,
                   projects_response, projects_data, e>>

\* lines 40-45: json() raises on a body that is no JSON, .get on a value that is
\* no dict; otherwise the token is taken and the three fields are printed
TokenAccepted ==
    /\ pc = "token_check"
    /\ ~TokenFailed(Val(token_response))
    /\ LET parsed == ParseJson(Val(token_response).text)
       IN  IF ~parsed.ok THEN
                /\ e' = Bound(JSONDecodeError)
                /\ pc' = "token_except"
                /\ UNCHANGED <<out, token_info, access_token>>
           ELSE IF parsed.val.t # "obj" THEN
                /\ token_info' = Bound(parsed.val)
                /\ e' = Bound(AttributeError(parsed.val))
                /\ pc' = "token_except"
                /\ UNCHANGED <<out, access_token>>
           ELSE
                /\ token_info' = Bound(parsed.val)
                /\ access_token' = Bound(DictGet(parsed.val.v, KeyAccessToken, JNull))
                /\ out' = out \o <<
                        <<"Bearer Token obtained successfully!">>,
                        <<"Token type: ">> \o PyStr(DictGet(parsed.val.v, KeyTokenType, JNull)),
                        <<"Expires in: ">> \o PyStr(DictGet(parsed.val.v, KeyExpiresIn, JNull))
                            \o <<" seconds">>,
                        <<>> >>
                /\ pc' = "step2"
                /\ UNCHANGED e
    /\ UNCHANGED <<exit_code, sent, token_response, headers, projects_response,
                   projects_data>>

\* mutant of TokenExcept: the handler prints and exits with code 0
TokenExcept_ExitZero ==
    /\ pc = "token_except"
    /\ out' = Append(out, <<"Error getting token: ">> \o Val(e).msg)
    /\ Exit(0)
    /\ UNCHANGED <<sent, token_response, token_info, access_token, headers,
                   projects_response, projects_data, e>>

\* lines 47-49
TokenExcept ==
    /\ pc = "token_except"
    /\ out' = Append(out, <<"Error getting token: ">> \o Val(e).msg)
    /\ Exit(1)
    /\ UNCHANGED <<sent, token_response, token_info, access_token, headers,
                   projects_response, projects_data, e>>

\* mutant of Headers: a missing token is sent as an empty one
Headers_NoneAsEmpty(token) ==
    [Authorization |-> <<"Bearer ">> \o (IF token.t = "null" THEN <<>> ELSE PyStr(token)),
     Accept |-> <<"application/json">>]

\* lines 53-56
Headers(token) ==
    [Authorization |-> <<"Bearer ">> \o PyStr(token), Accept |-> <<"application/json">>]

\* mutant of Step2: the projects request is issued a second time
Step2_SendsTwice ==
    /\ pc = "step2"
    /\ out' = Append(out, <<"Step 2: Testing projects API with OAuth token...">>)
    /\ headers' = Bound(Headers(Val(access_token)))
    /\ sent' = sent \o
            [i \in 1..2 |-> [method |-> "GET", url |-> projects_url,
                             headers |-> Headers(Val(access_token)), verify |-> FALSE]]
    /\ pc' = "get"
    /\ UNCHANGED <<exit_code, token_response, token_info, access_token,
                   projects_response, projects_data, e>>

\* lines 52-63: the Step 2 banner, the headers, then the projects request is issued
Step2 ==
    /\ pc = "step2"
    /\ out' = Append(out, <<"Step 2: Testing projects API with OAuth token...">>)
    /\ headers' = Bound(Headers(Val(access_token)))
    /\ sent' = Append(sent, [method |-> "GET", url |-> projects_url,
                             headers |-> Headers(Val(access_token)), verify |-> FALSE])
    /\ pc' = "get"
    /\ UNCHANGED <<exit_code, token_response, token_info, access_token,
                   projects_response, projects_data, e>>

\* line 59: requests.get returns a response
GetReturns ==
    /\ pc = "get"
    /\ \E status \in ProjectsStatuses, body \in ProjectsBodies :
            projects_response' = Bound(Response(status, body))
    /\ pc' = "projects_check"
    /\ UNCHANGED <<out, exit_code, sent, token_response, token_info, access_token,
                   headers, projects_data, e>>

\* line 59: requests.get raises
GetRaises ==
    /\ pc = "get"
    /\ \E x \in TransportErrors : e' = Bound(x)
    /\ pc' = "projects_except"
    /\ UNCHANGED <<out, exit_code, sent, token_response, token_info, access_token,
                   headers, projects_response, projects_data>>

\* mutant of ProjectsOk: every 2xx status counts as a success
ProjectsOk_AnySuccess(resp) == resp.status_code < 300

\* line 65
ProjectsOk(resp) == resp.status_code = 200

\* lines 65-69: the first line is printed before json(), .get and len can raise
ProjectsSucceeded ==
    /\ pc = "projects_check"
    /\ ProjectsOk(Val(projects_response))
    /\ LET parsed == ParseJson(Val(projects_response).text)
           first == <<"Projects API call succeeded!">>
           data == DictGet(parsed.val.v, KeyData, JArr(<<>>))
       IN  IF ~parsed.ok THEN
                /\ out' = Append(out, first)
                /\ e' = Bound(JSONDecodeError)
                /\ pc' = "projects_except"
                /\ UNCHANGED projects_data
           ELSE IF parsed.val.t # "obj" THEN
                /\ out' = Append(out, first)
                /\ projects_data' = Bound(parsed.val)
                /\ e' = Bound(AttributeError(parsed.val))
                /\ pc' = "projects_except"
           ELSE IF ~HasLen(data) THEN
                /\ out' = Append(out, first)
                /\ projects_data' = Bound(parsed.val)
                /\ e' = Bound(TypeError(data))
                /\ pc' = "projects_except"
           ELSE
                /\ out' = out \o <<
                        first,
                        <<"Found ">> \o IntToChars(PyLen(data)) \o <<" projects">>,
                        <<"OAuth scope is correctly set to 'read'!">> >>
                /\ projects_data' = Bound(parsed.val)
                /\ pc' = "end"
                /\ UNCHANGED e
    /\ UNCHANGED <<exit_code, sent, token_response, token_info, access_token, headers,
                   projects_response>>

\* mutant of ScopeError: the status is not looked at
ScopeError_AnyStatus(resp) == Contains(resp.text, Signature)

\* line 75
ScopeError(resp) == resp.status_code = 500 /\ Contains(resp.text, Signature)

\* lines 70-79
ProjectsFailed ==
    /\ pc = "projects_check"
    /\ ~ProjectsOk(Val(projects_response))
    /\ out' = out
            \o << <<"Projects API call failed!">>,
                  <<"Status Code: ">> \o IntToChars(Val(projects_response).status_code),
                  <<"Response: ">> \o Val(projects_response).text >>
            \o (IF ScopeError(Val(projects_response))
                THEN << <<>>,
                        <<"THIS IS THE OAUTH SCOPE ERROR!">>,
                        <<"The OAuth client scope is set to 'Token Information'">>,
                        <<"It needs to be changed to 'read' in Jama Admin Console">> >>
                ELSE <<>>)
    /\ pc' = "end"
    /\ UNCHANGED <<exit_code, sent, token_response, token_info, access_token, headers,
                   projects_response, projects_data, e>>

\* mutant of ProjectsExcept: the handler exits as the Step 1 handler does
ProjectsExcept_Fatal ==
    /\ pc = "projects_except"
    /\ out' = Append(out, <<"Error calling projects API: ">> \o Val(e).msg)
    /\ Exit(1)
    /\ UNCHANGED <<sent, token_response, token_info, access_token, headers,
                   projects_response, projects_data, e>>

\* lines 81-82
ProjectsExcept ==
    /\ pc = "projects_except"
    /\ out' = Append(out, <<"Error calling projects API: ">> \o Val(e).msg)
    /\ pc' = "end"
    /\ UNCHANGED <<exit_code, sent, token_response, token_info, access_token, headers,
                   projects_response, projects_data, e>>

\* after line 82: the script ends and the interpreter exits with code 0
EndOfScript ==
    /\ pc = "end"
    /\ Exit(0)
    /\ UNCHANGED <<out, sent, token_response, token_info, access_token, headers,
                   projects_response, projects_data, e>>

Next ==
    \/ Start
    \/ PostReturns
    \/ PostRaises
    \/ TokenRejected
    \/ TokenAccepted
    \/ TokenExcept
    \/ Step2
    \/ GetReturns
    \/ GetRaises
    \/ ProjectsSucceeded
    \/ ProjectsFailed
    \/ ProjectsExcept
    \/ EndOfScript

Spec == Init /\ [][Next]_vars

(***************************************************************************)
(* Observations of a run used by the properties below.                     *)
(***************************************************************************)
Printed(line) == \E i \in 1..Len(out) : out[i] = line
LineStarts(line, piece) == Len(line) > 0 /\ line[1] = piece
PrintedStarting(piece) == \E i \in 1..Len(out) : LineStarts(out[i], piece)
IssuedCount(method) == Cardinality({i \in 1..Len(sent) : sent[i].method = method})
Issued(method) == IssuedCount(method) > 0
Exited == pc = "exited"

\* the token call came back with a response / raised
TokenAnswered == IsBound(token_response)
TokenStatus == Val(token_response).status_code
TokenText == Val(token_response).text
PostRaised == pc \notin {"start", "post"} /\ ~IsBound(token_response)
\* the projects call was issued and came back with a response / raised
ProjectsAnswered == IsBound(projects_response)
ProjectsStatus == Val(projects_response).status_code
ProjectsText == Val(projects_response).text
GetRaised == Issued("GET") /\ pc # "get" /\ ~IsBound(projects_response)
\* the handling of the projects response is over
ProjectsHandled == ProjectsAnswered /\ pc \in {"end", "exited"}

\* the lines printed up to the token request
Preamble ==
    << <<"=== Testing Jama OAuth Scope Issue ===">>,
       <<"Token URL: ", "https://jama02.rockwellcollins.com/contour", "/rest/oauth/token">>,
       <<"Projects URL: ", "https://jama02.rockwellcollins.com/contour", "/rest/v1/projects">>,
       <<>>,
       <<"Step 1: Requesting OAuth token...">> >>
Step2Banner == <<"Step 2: Testing projects API with OAuth token...">>
ScopeErrorLine == <<"THIS IS THE OAUTH SCOPE ERROR!">>
VerdictLine == <<"OAuth scope is correctly set to 'read'!">>
SucceededLine == <<"Projects API call succeeded!">>
ErrorCallingPiece == "Error calling projects API: "
BearerNone == <<"Bearer ", "N", "o", "n", "e">>
\* "Found n projects" for a one-digit n
FoundLine(n) == <<"Found ", Digits[n + 1], " projects">>

\* the token bodies that are a JSON object without access_token
BodiesWithoutToken ==
    {Object(<<>>), Object(<<TypeMember>>), Object(<<ExpiryMember>>),
     Object(<<TypeMember, ExpiryMember>>), ErrorBody}
\* the token bodies that are no JSON object
BodiesNotObject == {Array(<<>>), Quoted(<<"a">>), <<"n", "u", "l", "l">>, <<>>, HtmlBody}

(***************************************************************************)
(* C1.  Once the token endpoint has answered with a status other than 200, *)
(* the run is either about to take the failure branch or has exited with   *)
(* code 1, nothing but that exit is possible, and no GET is ever issued.   *)
(***************************************************************************)
C1_Non200TokenExitsWithoutResourceCall ==
    (TokenAnswered /\ TokenStatus # 200) =>
        /\ pc \in {"token_check", "exited"}
        /\ pc = "token_check" => ENABLED TokenRejected /\ ~ENABLED TokenAccepted
        /\ Exited => exit_code = <<1>>
        /\ ~Issued("GET")
        /\ ~Printed(Step2Banner)

\* Scenario 2 of the specification: 401 with {"error":"invalid_client"}
C1_Witness ==
    /\ Exited
    /\ TokenAnswered /\ TokenStatus = 401 /\ TokenText = ErrorBody
    /\ exit_code = <<1>>
    /\ sent = <<[method |-> "POST", url |-> token_url, data |-> payload,
                 auth |-> <<client_id, client_secret>>, verify |-> FALSE]>>

(***************************************************************************)
(* C2 as stated: every 200 token response, whatever its body, leads to the *)
(* resource call.                                                          *)
(***************************************************************************)
C2_Original ==
    (Exited /\ TokenAnswered /\ TokenStatus = 200) => Issued("GET")

(***************************************************************************)
(* C2, amended.  For a 200 token response whose body is a JSON object, the *)
(* run goes on to Step 2, and the GET it issues carries Authorization =    *)
(* "Bearer " followed by str() of the object's access_token (the last one  *)
(* when the key is repeated, None when it is absent or null); a 200 token  *)
(* response whose body is no JSON object never leads to the GET.           *)
(***************************************************************************)
C2_BearerIsExtractedToken ==
    (TokenAnswered /\ TokenStatus = 200 /\ pc # "token_check") =>
        LET parsed == ParseJson(TokenText)
            isObject == parsed.ok /\ parsed.val.t = "obj"
            auth == sent[2].headers.Authorization
        IN  /\ isObject => pc # "token_except" /\ (Exited => Issued("GET"))
            /\ ~isObject => ~Issued("GET")
            /\ Issued("GET") =>
                /\ IssuedCount("GET") = 1 /\ sent[2].method = "GET"
                /\ auth = <<"Bearer ">> \o PyStr(DictGet(parsed.val.v, KeyAccessToken, JNull))
                /\ headers = <<sent[2].headers>>
                \* the same, read off the body as the server wrote it
                /\ \A tok \in Tokens :
                      TokenText \in {Object(<<Member(KeyAccessToken, Quoted(tok))>>),
                                     Object(<<Member(KeyAccessToken, Quoted(tok)),
                                              TypeMember, ExpiryMember>>)}
                          => auth = <<"Bearer ">> \o tok
                /\ TokenText = Object(<<Member(KeyAccessToken, Quoted(<<"a">>)),
                                        Member(KeyAccessToken, Quoted(<<"Z">>))>>)
                      => auth = <<"Bearer ", "Z">>
                /\ TokenText = Object(<<Member(KeyAccessToken, <<"1", "2">>)>>)
                      => auth = <<"Bearer ", "1", "2">>
                /\ TokenText \in BodiesWithoutToken => auth = BearerNone

\* Scenario 1 of the specification, with the token "aZ"
C2_Witness ==
    /\ pc = "get"
    /\ TokenAnswered /\ TokenStatus = 200
    /\ TokenText = Object(<<Member(KeyAccessToken, Quoted(<<"a", "Z">>)),
                            TypeMember, ExpiryMember>>)
    /\ sent[2].headers.Authorization = <<"Bearer ", "a", "Z">>
    /\ Printed(<<"Token type: ", "b", "e", "a", "r", "e", "r">>)
    /\ Printed(<<"Expires in: ", "3", "6", "0", "0", " seconds">>)

(***************************************************************************)
(* C3 as stated: the exit code is 1 exactly when the token call returned a *)
(* status other than 200 or raised, and 0 otherwise.                       *)
(***************************************************************************)
C3_Original ==
    Exited =>
        (exit_code = <<1>>) = (PostRaised \/ (TokenAnswered /\ TokenStatus # 200))

(***************************************************************************)
(* C3, amended.  The exit code is 1 exactly when the token call raised,    *)
(* returned a status other than 200, or returned 200 with a body that is   *)
(* no JSON object (json() or .get raises inside the Step 1 try); on every  *)
(* other path, whatever Step 2 meets, it is 0.                             *)
(***************************************************************************)
C3_ExitCodeOneIffStepOneFails ==
    Exited =>
        /\ exit_code \in {<<0>>, <<1>>}
        /\ (exit_code = <<1>>) =
              \/ PostRaised
              \/ TokenAnswered /\ TokenStatus # 200
              \/ TokenAnswered /\ TokenStatus = 200 /\ TokenText \in BodiesNotObject
        /\ (ProjectsAnswered \/ GetRaised) => exit_code = <<0>>

\* a 200 token response carrying an HTML page ends the run with code 1
C3_Witness ==
    /\ Exited
    /\ TokenAnswered /\ TokenStatus = 200 /\ TokenText = HtmlBody
    /\ exit_code = <<1>>
    /\ Printed(<<"Error getting token: ", "Expecting value">>)

(***************************************************************************)
(* C4.  Once a projects response has been handled, the scope diagnostic    *)
(* has been printed if and only if the status is 500 and the body holds    *)
(* "IndexOutOfBounds"; and it is never printed before that.                *)
(***************************************************************************)
C4_ScopeDiagnosticIff500AndSignature ==
    /\ ProjectsHandled =>
          (Printed(ScopeErrorLine) = (ProjectsStatus = 500 /\ ProjectsText \in SignatureBodies))
    /\ ~ProjectsHandled => ~Printed(ScopeErrorLine)
    /\ Printed(ScopeErrorLine) =>
          /\ Printed(<<"The OAuth client scope is set to 'Token Information'">>)
          /\ Printed(<<"It needs to be changed to 'read' in Jama Admin Console">>)
          /\ Printed(<<"Status Code: ", "5", "0", "0">>)
          /\ Printed(<<"Response: ">> \o ProjectsText)

\* Scenario 4 of the specification: 500 with the signature inside an error text
C4_Witness ==
    /\ ProjectsHandled
    /\ ProjectsStatus = 500 /\ ProjectsText = SignatureInside
    /\ Printed(ScopeErrorLine)

(***************************************************************************)
(* C5 as stated: every 200 projects response gets a "Found N projects"     *)
(* line.                                                                   *)
(***************************************************************************)
C5_Original ==
    (Exited /\ ProjectsAnswered /\ ProjectsStatus = 200) => PrintedStarting("Found ")

(***************************************************************************)
(* C5, amended.  For a 200 projects response whose body is a JSON object   *)
(* in which data is absent or has a length (an array, a string, an         *)
(* object), exactly one "Found N projects" line is printed and N is that   *)
(* length, 0 when data is absent; for every other 200 body no count is     *)
(* printed and the "Error calling projects API" line is.                   *)
(***************************************************************************)
C5_CountIsLengthOfData ==
    (ProjectsHandled /\ ProjectsStatus = 200) =>
        LET parsed == ParseJson(ProjectsText)
            counted == /\ parsed.ok /\ parsed.val.t = "obj"
                       /\ HasKey(parsed.val.v, KeyData) =>
                             DictGet(parsed.val.v, KeyData, JNull).t \in {"arr", "str", "obj"}
            found == {i \in 1..Len(out) : LineStarts(out[i], "Found ")}
        IN  /\ counted => Cardinality(found) = 1
            /\ ~counted => found = {} /\ PrintedStarting(ErrorCallingPiece)
            \* the count, read off the body as the server wrote it
            /\ \A n \in 0..MaxProjects :
                  ProjectsText = DataBody(n) => Printed(FoundLine(n))
            /\ ProjectsText = Object(<<>>) => Printed(FoundLine(0))
            /\ ProjectsText = SignatureInJson => Printed(FoundLine(1))
            /\ ProjectsText = Object(<<Member(KeyData, Quoted(<<"a", "b">>))>>)
                  => Printed(FoundLine(2))
            /\ ProjectsText = Object(<<Member(KeyData, Array(<<<<"1">>>>)),
                                       Member(KeyData, Array(<<>>))>>)
                  => Printed(FoundLine(0))

\* Scenario 3 of the specification: 200 with two records in data
C5_Witness ==
    /\ ProjectsHandled
    /\ ProjectsStatus = 200 /\ ProjectsText = DataBody(2)
    /\ Printed(<<"Found ", "2", " projects">>)
    /\ Printed(VerdictLine)

(***************************************************************************)
(* C6.  An exception raised by the projects call is printed and is not     *)
(* fatal: its handler leaves the run at the end of the script, from where  *)
(* it exits with code 0, and nothing is printed after the message.  The    *)
(* same exception raised by the token call ends the run with code 1.       *)
(***************************************************************************)
C6_StepTwoExceptionNotFatal ==
    /\ (GetRaised /\ pc # "projects_except") =>
          /\ pc \in {"end", "exited"}
          /\ out[Len(out)] = <<ErrorCallingPiece>> \o Val(e).msg
          /\ Val(e) \in TransportErrors
          /\ Exited => exit_code = <<0>>
    /\ pc = "projects_except" => ~ENABLED TokenExcept /\ ENABLED ProjectsExcept
    /\ (PostRaised /\ pc # "token_except") =>
          /\ Exited /\ exit_code = <<1>>
          /\ out[Len(out)] = <<"Error getting token: ">> \o Val(e).msg
          /\ Val(e) \in TransportErrors

\* the projects call was refused, and the run has ended with code 0
C6_Witness ==
    /\ Exited /\ GetRaised
    /\ exit_code = <<0>>
    /\ out[Len(out)] = <<"Error calling projects API: ", "Connection refused">>

(***************************************************************************)
(* C7.  A run that ended on a Step 1 failure printed the preamble and then *)
(* only the diagnostic: the failure line, the status code and the raw body *)
(* for a status other than 200, the exception message for an exception.    *)
(* It issued the token request once and nothing else, never printed the    *)
(* Step 2 banner, and exited with code 1.                                  *)
(***************************************************************************)
C7_StepOneFailureDiagnosticThenExit ==
    /\ (TokenAnswered /\ TokenStatus # 200 /\ pc # "token_check") =>
          /\ Exited /\ exit_code = <<1>>
          /\ out = Preamble \o << <<"Failed to get token">>,
                                  <<"Status Code: ">> \o IntToChars(TokenStatus),
                                  <<"Response: ">> \o TokenText >>
          /\ Len(sent) = 1 /\ sent[1].method = "POST"
    /\ (PostRaised /\ pc # "token_except") =>
          /\ Exited /\ exit_code = <<1>>
          /\ out = Append(Preamble, <<"Error getting token: ">> \o Val(e).msg)
          /\ Len(sent) = 1 /\ sent[1].method = "POST"
    /\ (Exited /\ exit_code = <<1>>) => ~Printed(Step2Banner) /\ ~Issued("GET")

\* a 500 from the token endpoint with an HTML page as its body
C7_Witness ==
    /\ Exited /\ exit_code = <<1>>
    /\ TokenAnswered /\ TokenStatus = 500 /\ TokenText = HtmlBody
    /\ SubSeq(out, 6, 8) = << <<"Failed to get token">>,
                              <<"Status Code: ", "5", "0", "0">>,
                              <<"Response: ", "<", "h", "t", "m", "l", ">">> >>

(***************************************************************************)
(* C8.  A 200 token response whose JSON object lacks access_token,         *)
(* token_type or expires_in is not a Step 1 failure: the run never enters  *)
(* the Step 1 handler and never exits with code 1, it prints None for the  *)
(* missing fields, goes on to Step 2, and with access_token missing sends  *)
(* Authorization: Bearer None.                                             *)
(***************************************************************************)
C8_MissingFieldsDoNotFail ==
    (TokenAnswered /\ TokenStatus = 200 /\ pc # "token_check"
        /\ TokenText \in BodiesWithoutToken
                \cup {Object(<<Member(KeyAccessToken, Quoted(tok))>>) : tok \in Tokens}) =>
        /\ pc # "token_except"
        /\ Exited => exit_code = <<0>> /\ Issued("GET")
        /\ Printed(<<"Bearer Token obtained successfully!">>)
        /\ TokenText \notin {Object(<<TypeMember>>), Object(<<TypeMember, ExpiryMember>>)}
              => Printed(<<"Token type: ", "N", "o", "n", "e">>)
        /\ TokenText \notin {Object(<<ExpiryMember>>), Object(<<TypeMember, ExpiryMember>>)}
              => Printed(<<"Expires in: ", "N", "o", "n", "e", " seconds">>)
        /\ (pc # "step2" /\ TokenText \in BodiesWithoutToken) =>
              /\ sent[2].method = "GET"
              /\ sent[2].headers.Authorization = BearerNone

\* the token endpoint answered 200 with {}, and the GET went out with Bearer None
C8_Witness ==
    /\ pc = "get"
    /\ TokenAnswered /\ TokenStatus = 200 /\ TokenText = Object(<<>>)
    /\ sent[2].headers = [Authorization |-> <<"Bearer ", "N", "o", "n", "e">>,
                          Accept |-> <<"application/json">>]

(***************************************************************************)
(* C9.  The requests issued are the POST alone or the POST followed by one *)
(* GET: the POST is issued by the first step and never again, and the GET  *)
(* is issued only once the POST has come back with a response.             *)
(***************************************************************************)
C9_OneTokenRequestThenAtMostOneResourceRequest ==
    /\ IssuedCount("POST") = (IF pc = "start" THEN 0 ELSE 1)
    /\ IssuedCount("GET") <= 1
    /\ Len(sent) <= 2
    /\ Len(sent) >= 1 => sent[1].method = "POST" /\ sent[1].url = token_url
    /\ Len(sent) = 2 => sent[2].method = "GET" /\ sent[2].url = projects_url
    /\ Issued("GET") => TokenAnswered /\ pc \notin {"start", "post", "token_check"}
    /\ pc = "post" => ~TokenAnswered /\ ~Issued("GET")
    /\ pc = "get" => TokenAnswered /\ ~ProjectsAnswered

\* both requests are out and the projects response is in
C9_Witness ==
    /\ pc = "projects_check"
    /\ Len(sent) = 2 /\ sent[1].method = "POST" /\ sent[2].method = "GET"
    /\ TokenAnswered /\ ProjectsAnswered

(***************************************************************************)
(* C10.  The verdict line is printed only after a 200 projects response    *)
(* and right after the "Found N projects" line, at most once, and never in *)
(* a run that prints the scope diagnostic or the "Error calling projects   *)
(* API" line.                                                              *)
(***************************************************************************)
C10_VerdictOnlyAfterCountedSuccess ==
    Printed(VerdictLine) =>
        /\ ProjectsAnswered /\ ProjectsStatus = 200
        /\ Cardinality({i \in 1..Len(out) : out[i] = VerdictLine}) = 1
        /\ out[Len(out)] = VerdictLine
        /\ LineStarts(out[Len(out) - 1], "Found ")
        /\ out[Len(out) - 2] = SucceededLine
        /\ ~Printed(ScopeErrorLine)
        /\ ~PrintedStarting(ErrorCallingPiece)
        /\ ~PrintedStarting("Projects API call failed!")

\* the verdict after a 200 with an empty data array
C10_Witness ==
    /\ Exited /\ exit_code = <<0>>
    /\ ProjectsAnswered /\ ProjectsStatus = 200 /\ ProjectsText = DataBody(0)
    /\ SubSeq(out, Len(out) - 2, Len(out)) =
            <<SucceededLine, <<"Found ", "0", " projects">>, VerdictLine>>

\* the case C10 sets apart: "succeeded" and "Error calling" printed in one run
C10_SucceededThenError ==
    /\ Printed(SucceededLine)
    /\ PrintedStarting(ErrorCallingPiece)
    /\ ~Printed(VerdictLine)
    /\ ProjectsStatus = 200

====
